---- MODULE Spec2Model ----
(***************************************************************************)
(* A model of fernet-cypher-gui (src/main.py): the FernetCypher class, the *)
(* two file helpers and the PySimpleGUI event loop of __main__.            *)
(*                                                                         *)
(* Python values.  A str is a sequence of characters Chr(cp), a bytes      *)
(* object a sequence of numbers 0..255; str.encode() and bytes.decode()    *)
(* are UTF-8.  A value that may be None is a record [none, v]; the result  *)
(* of a call that may raise is a record [ok, v].  A path is a sequence of  *)
(* one-character strings.                                                  *)
(*                                                                         *)
(* cryptography.fernet.  Keys and tokens are those of the library: the     *)
(* url-safe base64 text, PKCS7 padding, AES-128 in CBC mode (FIPS 197) and  *)
(* HMAC-SHA256 (FIPS 180-4, RFC 2104) are computed byte for byte; a 32-bit  *)
(* word of SHA-256 is a pair of 16-bit halves.  os.urandom is a function of *)
(* a number the caller draws, time.time() a constant.                       *)
(***************************************************************************)
EXTENDS Naturals, Sequences, FiniteSets, TLC

\* ------------------------------------------------------------------ bounds
\* Fernet draws a random 128-bit IV per token and generate_key a random
\* 256-bit secret: the model draws them from 1..MaxIV and 1..MaxSecret.
MaxIV == 2
MaxSecret == 2

\* --------------------------------------------------------- Python values
None == [none |-> TRUE, v |-> <<>>]
Some(x) == [none |-> FALSE, v |-> x]
\* A call that returned x, and a call that raised.
Ok(x) == [ok |-> TRUE, v |-> x]
Failed == [ok |-> FALSE, v |-> <<>>]

\* F applied to the value of e, and to the values of a and b: the arguments
\* are evaluated once, before the call, as Python evaluates them.
With(e, F(_)) == CHOOSE r \in {F(x) : x \in {e}} : TRUE
With2(a, b, F(_, _)) == CHOOSE r \in {F(x, y) : x \in {a}, y \in {b}} : TRUE

\* A character with code point cp.
Chr(cp) == [cp |-> cp]

\* A variant of EncodeChar that writes one byte per character (Latin-1).
EncodeCharLatin1(c) == <<c.cp % 256>>

\* The UTF-8 bytes of one character.
EncodeChar(c) ==
    IF c.cp < 128 THEN <<c.cp>>
    ELSE IF c.cp < 2048 THEN <<192 + (c.cp \div 64), 128 + (c.cp % 64)>>
    ELSE IF c.cp < 65536
    THEN <<224 + (c.cp \div 4096), 128 + ((c.cp \div 64) % 64), 128 + (c.cp % 64)>>
    ELSE <<240 + (c.cp \div 262144), 128 + ((c.cp \div 4096) % 64),
           128 + ((c.cp \div 64) % 64), 128 + (c.cp % 64)>>

RECURSIVE EncodeUtf8(_)
EncodeUtf8(text) ==
    With(text, LAMBDA s :
        IF Len(s) = 0 THEN <<>>
        ELSE IF Len(s) = 1 THEN EncodeChar(s[1])
        ELSE EncodeUtf8(SubSeq(s, 1, Len(s) \div 2))
             \o EncodeUtf8(SubSeq(s, (Len(s) \div 2) + 1, Len(s))))

\* str.encode(): an ASCII text is its code points; UnicodeEncodeError on a
\* surrogate (CanEncode is then false).
StrEncode(text) ==
    With(text, LAMBDA s :
        IF \A j \in 1..Len(s) : s[j].cp < 128
        THEN SubSeq([j \in 1..Len(s) |-> s[j].cp], 1, Len(s))
        ELSE EncodeUtf8(s))
IsSurrogate(c) == c.cp >= 55296 /\ c.cp <= 57343
CanEncode(s) == \A j \in 1..Len(s) : ~IsSurrogate(s[j])

\* The length of the well-formed UTF-8 sequence that starts at b[i], 0 when
\* there is none (overlong forms, surrogates and code points above U+10FFFF
\* are ill-formed), and the character it encodes.
IsCont(b, j) == j <= Len(b) /\ b[j] >= 128 /\ b[j] <= 191
Utf8Len(b, i) ==
    LET h == b[i]
        second(lo, hi) == i + 1 <= Len(b) /\ b[i + 1] >= lo /\ b[i + 1] <= hi
    IN  IF h < 128 THEN 1
        ELSE IF h >= 194 /\ h <= 223 /\ second(128, 191) THEN 2
        ELSE IF /\ h >= 224 /\ h <= 239
                /\ second(IF h = 224 THEN 160 ELSE 128, IF h = 237 THEN 159 ELSE 191)
                /\ IsCont(b, i + 2) THEN 3
        ELSE IF /\ h >= 240 /\ h <= 244
                /\ second(IF h = 240 THEN 144 ELSE 128, IF h = 244 THEN 143 ELSE 191)
                /\ IsCont(b, i + 2) /\ IsCont(b, i + 3) THEN 4
        ELSE 0
Utf8Char(b, i, n) ==
    IF n = 1 THEN Chr(b[i])
    ELSE IF n = 2 THEN Chr(((b[i] - 192) * 64) + (b[i + 1] - 128))
    ELSE IF n = 3
    THEN Chr(((b[i] - 224) * 4096) + ((b[i + 1] - 128) * 64) + (b[i + 2] - 128))
    ELSE Chr(((b[i] - 240) * 262144) + ((b[i + 1] - 128) * 4096)
             + ((b[i + 2] - 128) * 64) + (b[i + 3] - 128))

\* Strict UTF-8 decoding.  The bytes are split at a byte that starts a
\* character (any byte but a continuation byte), near the middle; a piece
\* that cannot be split must be exactly one character.
RECURSIVE DecodeUtf8(_)
DecodeUtf8(bytes) ==
    With(bytes, LAMBDA b :
        LET mid == (Len(b) \div 2) + 1
            far(i) == IF i > mid THEN i - mid ELSE mid - i
            starts == {i \in (mid - 3)..(mid + 3) :
                          i >= 2 /\ i <= Len(b) /\ (b[i] < 128 \/ b[i] > 191)}
            cut == CHOOSE i \in starts : \A j \in starts : far(i) <= far(j)
        IN  IF b = <<>> THEN Ok(<<>>)
            ELSE IF starts = {}
            THEN IF Utf8Len(b, 1) = Len(b) THEN Ok(<<Utf8Char(b, 1, Len(b))>>)
                 ELSE Failed
            ELSE With2(DecodeUtf8(SubSeq(b, 1, cut - 1)), DecodeUtf8(SubSeq(b, cut, Len(b))),
                       LAMBDA l, r : IF l.ok /\ r.ok THEN Ok(l.v \o r.v) ELSE Failed))

\* bytes.decode(): Failed stands for UnicodeDecodeError.
BytesDecode(bytes) ==
    With(bytes, LAMBDA b :
        IF \A j \in 1..Len(b) : b[j] < 128
        THEN Ok(SubSeq([j \in 1..Len(b) |-> Chr(b[j])], 1, Len(b)))
        ELSE DecodeUtf8(b))

\* Reading in text mode translates \r\n and \r to \n.
UniversalNewlines(text) ==
    With(text, LAMBDA s :
        LET mark == [i \in 1..Len(s) |->
                        IF s[i].cp = 13 THEN Chr(10)
                        ELSE IF s[i].cp = 10 /\ i > 1 /\ s[i - 1].cp = 13 THEN Chr(13)
                        ELSE s[i]]
        IN  IF \A i \in 1..Len(s) : s[i].cp # 13 THEN s
            ELSE SelectSeq(mark, LAMBDA c : c.cp # 13))

\* ------------------------------------------------------------------ base64
\* The character of a 6-bit value in the url-safe alphabet (A-Z a-z 0-9 - _)
\* and the value of a character; + and / are read as - and _, and 64 marks a
\* byte outside the alphabet.
B64Char(v) ==
    IF v < 26 THEN 65 + v
    ELSE IF v < 52 THEN 71 + v
    ELSE IF v < 62 THEN v - 4
    ELSE IF v = 62 THEN 45 ELSE 95
B64Value(c) ==
    IF c >= 65 /\ c <= 90 THEN c - 65
    ELSE IF c >= 97 /\ c <= 122 THEN c - 71
    ELSE IF c >= 48 /\ c <= 57 THEN c + 4
    ELSE IF c = 45 \/ c = 43 THEN 62
    ELSE IF c = 95 \/ c = 47 THEN 63
    ELSE 64

\* base64.urlsafe_b64encode: three bytes per four characters, padded with =.
B64Encode(bytes) ==
    With(bytes, LAMBDA b :
        LET n == Len(b)
            at(i) == IF i <= n THEN b[i] ELSE 0
            quad(k, r) ==
                IF r = 0 THEN B64Char(at(k) \div 4)
                ELSE IF r = 1 THEN B64Char(((at(k) % 4) * 16) + (at(k + 1) \div 16))
                ELSE IF r = 2
                THEN IF k + 1 <= n
                     THEN B64Char(((at(k + 1) % 16) * 4) + (at(k + 2) \div 64)) ELSE 61
                ELSE IF k + 2 <= n THEN B64Char(at(k + 2) % 64) ELSE 61
            text == [j \in 1..(4 * ((n + 2) \div 3)) |->
                        quad((3 * ((j - 1) \div 4)) + 1, (j - 1) % 4)]
        IN  SubSeq(text, 1, 4 * ((n + 2) \div 3)))

\* base64.urlsafe_b64decode, which does not validate.  Bytes outside the
\* alphabet are skipped.  An = is skipped too, unless it completes the padding
\* of a group of two or three characters (the second = in a row after two
\* characters, the first after three): decoding then ends and the rest of the
\* input is ignored.  Without such an end the number of characters has to be a
\* multiple of four; Failed stands for binascii.Error.
B64Decode(s) ==
    With(SelectSeq(s, LAMBDA c : c = 61 \/ B64Value(c) < 64), LAMBDA r :
        LET quad_pos(e) == Cardinality({j \in 1..(e - 1) : r[j] # 61}) % 4
            ends == {e \in 1..Len(r) :
                        /\ r[e] = 61
                        /\ \/ quad_pos(e) = 3
                           \/ quad_pos(e) = 2 /\ e > 1 /\ r[e - 1] = 61}
            stop == IF ends = {} THEN Len(r) + 1
                    ELSE CHOOSE e \in ends : \A f \in ends : e <= f
        IN  With(SelectSeq(SubSeq(r, 1, stop - 1), LAMBDA c : c # 61), LAMBDA data :
                LET n == Len(data)
                    v(i) == B64Value(data[i])
                    byte(g, t) ==
                        IF t = 0 THEN (v(g + 1) * 4) + (v(g + 2) \div 16)
                        ELSE IF t = 1 THEN ((v(g + 2) % 16) * 16) + (v(g + 3) \div 4)
                        ELSE ((v(g + 3) % 4) * 64) + v(g + 4)
                    count == (3 * (n \div 4)) + (IF n % 4 = 0 THEN 0 ELSE (n % 4) - 1)
                    bytes == [k \in 1..count |-> byte(4 * ((k - 1) \div 3), (k - 1) % 3)]
                IN  IF ends = {} /\ n % 4 # 0 THEN Failed
                    ELSE Ok(SubSeq(bytes, 1, count))))

\* ------------------------------------------------- the texts of the model
\* The text of note.txt when the program starts, and what the user saves
\* into a message file with another program: a text with a three-byte
\* character and a Windows line end, and bytes that are not UTF-8.
NoteText == <<Chr(97)>>
UserData == {StrEncode(<<Chr(8364), Chr(13), Chr(10)>>), <<195>>}
\* What a caller of the class passes to encrypt_message: None, the empty
\* text, a text with two- and three-byte characters, a lone surrogate.
Messages ==
    {None, Some(<<>>), Some(<<Chr(233), Chr(8364), Chr(10)>>), Some(<<Chr(55296)>>)}
\* The texts load_message reads from these files, and the texts of Messages
\* that can be encoded.
FileTexts ==
    {NoteText} \cup {UniversalNewlines(BytesDecode(d).v) : d \in {u \in UserData : BytesDecode(u).ok}}
CallerTexts == {m.v : m \in {c \in Messages : ~c.none /\ CanEncode(c.v)}}

\* ---------------------------------------------------- bits and bytes
\* Bitwise exclusive or and bitwise and of two bytes, bit by bit, and as
\* tables: entry (a * 256) + b + 1 holds the value for a and b.
RECURSIVE XorBits(_, _)
XorBits(a, b) ==
    IF a = 0 THEN b ELSE IF b = 0 THEN a
    ELSE ((a + b) % 2) + (2 * XorBits(a \div 2, b \div 2))
RECURSIVE AndBits(_, _)
AndBits(a, b) ==
    IF a = 0 \/ b = 0 THEN 0
    ELSE ((a % 2) * (b % 2)) + (2 * AndBits(a \div 2, b \div 2))
XorTable == SubSeq([n \in 1..65536 |-> XorBits((n - 1) \div 256, (n - 1) % 256)], 1, 65536)
AndTable == SubSeq([n \in 1..65536 |-> AndBits((n - 1) \div 256, (n - 1) % 256)], 1, 65536)
Xor(a, b) == XorTable[(a * 256) + b + 1]
And(a, b) == AndTable[(a * 256) + b + 1]
XorBlock(a, b) ==
    With2(a, b, LAMBDA p, q : SubSeq([j \in 1..16 |-> Xor(p[j], q[j])], 1, 16))

\* ------------------------------------------------------ AES-128 (FIPS 197)
\* The S-box and its inverse (entry x + 1 holds the image of x).
SBox ==
    <<99, 124, 119, 123, 242, 107, 111, 197, 48, 1, 103, 43, 254, 215, 171, 118,
      202, 130, 201, 125, 250, 89, 71, 240, 173, 212, 162, 175, 156, 164, 114, 192,
      183, 253, 147, 38, 54, 63, 247, 204, 52, 165, 229, 241, 113, 216, 49, 21,
      4, 199, 35, 195, 24, 150, 5, 154, 7, 18, 128, 226, 235, 39, 178, 117,
      9, 131, 44, 26, 27, 110, 90, 160, 82, 59, 214, 179, 41, 227, 47, 132,
      83, 209, 0, 237, 32, 252, 177, 91, 106, 203, 190, 57, 74, 76, 88, 207,
      208, 239, 170, 251, 67, 77, 51, 133, 69, 249, 2, 127, 80, 60, 159, 168,
      81, 163, 64, 143, 146, 157, 56, 245, 188, 182, 218, 33, 16, 255, 243, 210,
      205, 12, 19, 236, 95, 151, 68, 23, 196, 167, 126, 61, 100, 93, 25, 115,
      96, 129, 79, 220, 34, 42, 144, 136, 70, 238, 184, 20, 222, 94, 11, 219,
      224, 50, 58, 10, 73, 6, 36, 92, 194, 211, 172, 98, 145, 149, 228, 121,
      231, 200, 55, 109, 141, 213, 78, 169, 108, 86, 244, 234, 101, 122, 174, 8,
      186, 120, 37, 46, 28, 166, 180, 198, 232, 221, 116, 31, 75, 189, 139, 138,
      112, 62, 181, 102, 72, 3, 246, 14, 97, 53, 87, 185, 134, 193, 29, 158,
      225, 248, 152, 17, 105, 217, 142, 148, 155, 30, 135, 233, 206, 85, 40, 223,
      140, 161, 137, 13, 191, 230, 66, 104, 65, 153, 45, 15, 176, 84, 187, 22>>
InvSBox ==
    <<82, 9, 106, 213, 48, 54, 165, 56, 191, 64, 163, 158, 129, 243, 215, 251,
      124, 227, 57, 130, 155, 47, 255, 135, 52, 142, 67, 68, 196, 222, 233, 203,
      84, 123, 148, 50, 166, 194, 35, 61, 238, 76, 149, 11, 66, 250, 195, 78,
      8, 46, 161, 102, 40, 217, 36, 178, 118, 91, 162, 73, 109, 139, 209, 37,
      114, 248, 246, 100, 134, 104, 152, 22, 212, 164, 92, 204, 93, 101, 182, 146,
      108, 112, 72, 80, 253, 237, 185, 218, 94, 21, 70, 87, 167, 141, 157, 132,
      144, 216, 171, 0, 140, 188, 211, 10, 247, 228, 88, 5, 184, 179, 69, 6,
      208, 44, 30, 143, 202, 63, 15, 2, 193, 175, 189, 3, 1, 19, 138, 107,
      58, 145, 17, 65, 79, 103, 220, 234, 151, 242, 207, 206, 240, 180, 230, 115,
      150, 172, 116, 34, 231, 173, 53, 133, 226, 249, 55, 232, 28, 117, 223, 110,
      71, 241, 26, 113, 29, 41, 197, 137, 111, 183, 98, 14, 170, 24, 190, 27,
      252, 86, 62, 75, 198, 210, 121, 32, 154, 219, 192, 254, 120, 205, 90, 244,
      31, 221, 168, 51, 136, 7, 199, 49, 177, 18, 16, 89, 39, 128, 236, 95,
      96, 81, 127, 169, 25, 181, 74, 13, 45, 229, 122, 159, 147, 201, 156, 239,
      160, 224, 59, 77, 174, 42, 245, 176, 200, 235, 187, 60, 131, 83, 153, 97,
      23, 43, 4, 126, 186, 119, 214, 38, 225, 105, 20, 99, 85, 33, 12, 125>>

\* Multiplication in GF(2^8) modulo x^8 + x^4 + x^3 + x + 1: by x, and by the
\* constants of MixColumns and InvMixColumns (entry b + 1 holds c times b).
XTime(b) == Xor((2 * b) % 256, IF b >= 128 THEN 27 ELSE 0)
Mul2 == SubSeq([n \in 1..256 |-> XTime(n - 1)], 1, 256)
Mul3 == SubSeq([n \in 1..256 |-> Xor(Mul2[n], n - 1)], 1, 256)
Mul4 == SubSeq([n \in 1..256 |-> Mul2[Mul2[n] + 1]], 1, 256)
Mul8 == SubSeq([n \in 1..256 |-> Mul2[Mul4[n] + 1]], 1, 256)
Mul9 == SubSeq([n \in 1..256 |-> Xor(Mul8[n], n - 1)], 1, 256)
Mul11 == SubSeq([n \in 1..256 |-> Xor(Mul9[n], Mul2[n])], 1, 256)
Mul13 == SubSeq([n \in 1..256 |-> Xor(Mul9[n], Mul4[n])], 1, 256)
Mul14 == SubSeq([n \in 1..256 |-> Xor(Xor(Mul8[n], Mul4[n]), Mul2[n])], 1, 256)

\* The state and the round keys are sequences of 16 bytes, column by column:
\* byte (4 * c) + r + 1 is row r of column c.
\* The round key that follows round key prev; rcon is the round constant.
NextRoundKey(prev, rcon) ==
    With(<<Xor(Xor(SBox[prev[14] + 1], rcon), prev[1]), Xor(SBox[prev[15] + 1], prev[2]),
           Xor(SBox[prev[16] + 1], prev[3]), Xor(SBox[prev[13] + 1], prev[4])>>,
         LAMBDA c0 :
    With(<<Xor(c0[1], prev[5]), Xor(c0[2], prev[6]), Xor(c0[3], prev[7]),
           Xor(c0[4], prev[8])>>,
         LAMBDA c1 :
    With(<<Xor(c1[1], prev[9]), Xor(c1[2], prev[10]), Xor(c1[3], prev[11]),
           Xor(c1[4], prev[12])>>,
         LAMBDA c2 :
        c0 \o c1 \o c2 \o <<Xor(c2[1], prev[13]), Xor(c2[2], prev[14]),
                            Xor(c2[3], prev[15]), Xor(c2[4], prev[16])>>)))
RoundConstants == <<1, 2, 4, 8, 16, 32, 64, 128, 27, 54>>
\* KeyExpansion: the round keys 0..10 of a key, built from the keys so far.
RECURSIVE ExpandKey(_, _)
ExpandKey(keys, count) ==
    IF count = 1
    THEN With(keys, LAMBDA ks :
             Append(ks, NextRoundKey(ks[Len(ks)], RoundConstants[Len(ks)])))
    ELSE With(ExpandKey(keys, count \div 2),
              LAMBDA ks : ExpandKey(ks, count - (count \div 2)))
KeyExpansion(key) == ExpandKey(<<key>>, 10)

\* Row r of column c of the state after SubBytes and ShiftRows, and after
\* their inverses.
SubShift(s, c, r) == SBox[s[(4 * ((c + r) % 4)) + r + 1] + 1]
InvSubShift(s, c, r) == InvSBox[s[(4 * ((c + 4 - r) % 4)) + r + 1] + 1]
\* One round of the cipher: SubBytes, ShiftRows, MixColumns, AddRoundKey.
EncryptRound(state, round_key) ==
    With2(state, round_key, LAMBDA s, rk :
        SubSeq([j \in 1..16 |->
            LET c == (j - 1) \div 4
                r == (j - 1) % 4
            IN  Xor(Xor(Xor(Mul2[SubShift(s, c, r) + 1],
                            Mul3[SubShift(s, c, (r + 1) % 4) + 1]),
                        Xor(SubShift(s, c, (r + 2) % 4), SubShift(s, c, (r + 3) % 4))),
                    rk[j])], 1, 16))
\* The last round has no MixColumns.
EncryptLastRound(state, round_key) ==
    With2(state, round_key, LAMBDA s, rk :
        SubSeq([j \in 1..16 |-> Xor(SubShift(s, (j - 1) \div 4, (j - 1) % 4), rk[j])],
               1, 16))
\* One round of the inverse cipher: InvShiftRows, InvSubBytes, AddRoundKey,
\* InvMixColumns.
DecryptRound(state, round_key) ==
    With2(state, round_key, LAMBDA s, rk :
    With(SubSeq([j \in 1..16 |-> Xor(InvSubShift(s, (j - 1) \div 4, (j - 1) % 4), rk[j])],
                1, 16),
         LAMBDA a :
        SubSeq([j \in 1..16 |->
            LET c == 4 * ((j - 1) \div 4)
                r == (j - 1) % 4
            IN  Xor(Xor(Mul14[a[c + r + 1] + 1], Mul11[a[c + ((r + 1) % 4) + 1] + 1]),
                    Xor(Mul13[a[c + ((r + 2) % 4) + 1] + 1],
                        Mul9[a[c + ((r + 3) % 4) + 1] + 1]))], 1, 16)))
DecryptLastRound(state, round_key) ==
    With2(state, round_key, LAMBDA s, rk :
        SubSeq([j \in 1..16 |-> Xor(InvSubShift(s, (j - 1) \div 4, (j - 1) % 4), rk[j])],
               1, 16))

\* Rounds from..to of the cipher, and rounds from..to (counted downwards) of
\* the inverse cipher.
RECURSIVE EncryptRounds(_, _, _, _)
EncryptRounds(s, rks, from, to) ==
    IF from = to THEN EncryptRound(s, rks[from + 1])
    ELSE With(EncryptRounds(s, rks, from, (from + to) \div 2),
              LAMBDA n : EncryptRounds(n, rks, ((from + to) \div 2) + 1, to))
RECURSIVE DecryptRounds(_, _, _, _)
DecryptRounds(s, rks, from, to) ==
    IF from = to THEN DecryptRound(s, rks[from + 1])
    ELSE With(DecryptRounds(s, rks, from, ((from + to) \div 2) + 1),
              LAMBDA n : DecryptRounds(n, rks, (from + to) \div 2, to))

\* AES-128 on one block under the round keys rks.
AesEncryptBlock(round_keys, block) ==
    With2(round_keys, block, LAMBDA rks, blk :
        EncryptLastRound(EncryptRounds(XorBlock(blk, rks[1]), rks, 1, 9), rks[11]))
AesDecryptBlock(round_keys, block) ==
    With2(round_keys, block, LAMBDA rks, blk :
        DecryptLastRound(DecryptRounds(XorBlock(blk, rks[11]), rks, 9, 1), rks[1]))

\* ---------------------------------------------------- SHA-256 (FIPS 180-4)
\* A 32-bit word is a pair <<hi, lo>> of 16-bit halves.  The round constants
\* and the initial hash value:
Sha256K ==
    <<<<17034, 12184>>, <<28983, 17553>>, <<46528, 64463>>, <<59829, 56229>>,
      <<14678, 49755>>, <<23025, 4593>>, <<37439, 33444>>, <<43804, 24277>>,
      <<55303, 43672>>, <<4739, 23297>>, <<9265, 34238>>, <<21772, 32195>>,
      <<29374, 23924>>, <<32990, 45566>>, <<39900, 1703>>, <<49563, 61812>>,
      <<58523, 27073>>, <<61374, 18310>>, <<4033, 40390>>, <<9228, 41420>>,
      <<11753, 11375>>, <<19060, 33962>>, <<23728, 43484>>, <<30457, 35034>>,
      <<38974, 20818>>, <<43057, 50797>>, <<45059, 10184>>, <<48985, 32711>>,
      <<50912, 3059>>, <<54695, 37191>>, <<1738, 25425>>, <<5161, 10599>>,
      <<10167, 2693>>, <<11803, 8504>>, <<19756, 28156>>, <<21304, 3347>>,
      <<25866, 29524>>, <<30314, 2747>>, <<33218, 51502>>, <<37490, 11397>>,
      <<41663, 59553>>, <<43034, 26187>>, <<49739, 35696>>, <<51052, 20899>>,
      <<53650, 59417>>, <<54937, 1572>>, <<62478, 13701>>, <<4202, 41072>>,
      <<6564, 49430>>, <<7735, 27656>>, <<10056, 30540>>, <<13488, 48309>>,
      <<14620, 3251>>, <<20184, 43594>>, <<23452, 51791>>, <<26670, 28659>>,
      <<29839, 33518>>, <<30885, 25455>>, <<33992, 30740>>, <<36039, 520>>,
      <<37054, 65530>>, <<42064, 27883>>, <<48889, 41975>>, <<50801, 30962>>>>
Sha256H ==
    <<<<27145, 58983>>, <<47975, 44677>>, <<15470, 62322>>, <<42319, 62778>>,
      <<20750, 21119>>, <<39685, 26764>>, <<8067, 55723>>, <<23520, 52505>>>>

\* Bitwise operations on halves: exclusive or of three, Ch (p AND q) XOR
\* (NOT p AND r), and Maj, written (p AND q) OR (r AND (p XOR q)).
Xor16(p, q, r) ==
    (Xor(Xor(p \div 256, q \div 256), r \div 256) * 256)
    + Xor(Xor(p % 256, q % 256), r % 256)
Ch16(p, q, r) ==
    ((And(p \div 256, q \div 256) + And(255 - (p \div 256), r \div 256)) * 256)
    + And(p % 256, q % 256) + And(255 - (p % 256), r % 256)
Maj16(p, q, r) ==
    ((And(p \div 256, q \div 256) + And(r \div 256, Xor(p \div 256, q \div 256))) * 256)
    + And(p % 256, q % 256) + And(r % 256, Xor(p % 256, q % 256))
\* The high half of the word <<hi, lo>> rotated right by n < 16 bits, where
\* p = 2^n; the low half is Rotr of the halves exchanged, and a rotation by
\* 16 + n starts from the halves exchanged.
Rotr(hi, lo, p) == (hi \div p) + ((lo % p) * (65536 \div p))

\* The four functions of the standard, half by half.
BigSigma0Hi(h, l) == Xor16(Rotr(h, l, 4), Rotr(h, l, 8192), Rotr(l, h, 64))
BigSigma0Lo(h, l) == Xor16(Rotr(l, h, 4), Rotr(l, h, 8192), Rotr(h, l, 64))
BigSigma1Hi(h, l) == Xor16(Rotr(h, l, 64), Rotr(h, l, 2048), Rotr(l, h, 512))
BigSigma1Lo(h, l) == Xor16(Rotr(l, h, 64), Rotr(l, h, 2048), Rotr(h, l, 512))
SmallSigma0Hi(h, l) == Xor16(Rotr(h, l, 128), Rotr(l, h, 4), h \div 8)
SmallSigma0Lo(h, l) == Xor16(Rotr(l, h, 128), Rotr(h, l, 4), Rotr(l, h, 8))
SmallSigma1Hi(h, l) == Xor16(Rotr(l, h, 2), Rotr(l, h, 8), h \div 1024)
SmallSigma1Lo(h, l) == Xor16(Rotr(h, l, 2), Rotr(h, l, 8), Rotr(l, h, 1024))

\* The word whose halves are the column sums hi and lo (addition modulo 2^32).
Word(hi, lo) == <<(hi + (lo \div 65536)) % 65536, lo % 65536>>

\* The message schedule: count more words after the ones in words.
RECURSIVE Schedule(_, _)
Schedule(words, count) ==
    IF count = 1
    THEN With(words, LAMBDA w :
         With(<<SmallSigma1Hi(w[Len(w) - 1][1], w[Len(w) - 1][2]) + w[Len(w) - 6][1]
                  + SmallSigma0Hi(w[Len(w) - 14][1], w[Len(w) - 14][2])
                  + w[Len(w) - 15][1],
                SmallSigma1Lo(w[Len(w) - 1][1], w[Len(w) - 1][2]) + w[Len(w) - 6][2]
                  + SmallSigma0Lo(w[Len(w) - 14][1], w[Len(w) - 14][2])
                  + w[Len(w) - 15][2]>>,
              LAMBDA sums : Append(w, Word(sums[1], sums[2]))))
    ELSE With(Schedule(words, count \div 2),
              LAMBDA w : Schedule(w, count - (count \div 2)))

\* One round on the working variables v = <<a, b, c, d, e, f, g, h>> with the
\* round constant k and the schedule word w.
Sha256Round(v, k, w) ==
    With2(<<v[8][1] + BigSigma1Hi(v[5][1], v[5][2]) + Ch16(v[5][1], v[6][1], v[7][1])
              + k[1] + w[1],
            v[8][2] + BigSigma1Lo(v[5][1], v[5][2]) + Ch16(v[5][2], v[6][2], v[7][2])
              + k[2] + w[2]>>,
          <<BigSigma0Hi(v[1][1], v[1][2]) + Maj16(v[1][1], v[2][1], v[3][1]),
            BigSigma0Lo(v[1][1], v[1][2]) + Maj16(v[1][2], v[2][2], v[3][2])>>,
          LAMBDA t1, t2 :
              <<Word(t1[1] + t2[1], t1[2] + t2[2]), v[1], v[2], v[3],
                Word(v[4][1] + t1[1], v[4][2] + t1[2]), v[5], v[6], v[7]>>)
RECURSIVE Sha256Rounds(_, _, _, _)
Sha256Rounds(v, w, from, to) ==
    IF from = to THEN Sha256Round(v, Sha256K[from], w[from])
    ELSE With(Sha256Rounds(v, w, from, (from + to) \div 2),
              LAMBDA n : Sha256Rounds(n, w, ((from + to) \div 2) + 1, to))

\* The hash value after the 64-byte block is processed.
Compress(hash, block) ==
    With2(hash, block, LAMBDA h, b :
    With(Schedule(SubSeq([j \in 1..16 |->
                      <<(b[(4 * j) - 3] * 256) + b[(4 * j) - 2],
                        (b[(4 * j) - 1] * 256) + b[4 * j]>>], 1, 16), 48),
         LAMBDA w :
    With(Sha256Rounds(h, w, 1, 64), LAMBDA v :
        SubSeq([j \in 1..8 |-> Word(h[j][1] + v[j][1], h[j][2] + v[j][2])], 1, 8))))
\* The hash value after the blocks of data (a multiple of 64 bytes).
RECURSIVE CompressAll(_, _)
CompressAll(hash, data) ==
    With(data, LAMBDA d :
        IF Len(d) = 0 THEN hash
        ELSE IF Len(d) = 64 THEN Compress(hash, d)
        ELSE With(CompressAll(hash, SubSeq(d, 1, 64 * (Len(d) \div 128))),
                  LAMBDA h : CompressAll(h, SubSeq(d, (64 * (Len(d) \div 128)) + 1, Len(d)))))

\* The padding of a message of n bytes (a 1 bit, zeros, the length in bits)
\* and the 32 bytes of a hash value.
Sha256Padding(n) ==
    <<128>> \o [j \in 1..((119 - (n % 64)) % 64) |-> 0]
    \o <<0, 0, 0, (n \div 536870912) % 256, (n \div 2097152) % 256,
         (n \div 8192) % 256, (n \div 32) % 256, (n % 32) * 8>>
Sha256Bytes(hash) ==
    With(hash, LAMBDA h :
        SubSeq([j \in 1..32 |->
            IF j % 2 = 1 THEN h[((j - 1) \div 4) + 1][(((j - 1) \div 2) % 2) + 1] \div 256
            ELSE h[((j - 1) \div 4) + 1][(((j - 1) \div 2) % 2) + 1] % 256], 1, 32))
Sha256(message_bytes) ==
    With(message_bytes, LAMBDA m :
        Sha256Bytes(CompressAll(Sha256H, m \o Sha256Padding(Len(m)))))

\* ------------------------------------------------- HMAC-SHA256 (RFC 2104)
\* The hash values after the first block of the inner and of the outer hash:
\* the key, padded with zeros to 64 bytes, xored with 0x36 and with 0x5c.
HmacPads(key) ==
    With(IF Len(key) > 64 THEN Sha256(key) ELSE key, LAMBDA k :
        <<Compress(Sha256H, SubSeq([j \in 1..64 |->
                                Xor(IF j <= Len(k) THEN k[j] ELSE 0, 54)], 1, 64)),
          Compress(Sha256H, SubSeq([j \in 1..64 |->
                                Xor(IF j <= Len(k) THEN k[j] ELSE 0, 92)], 1, 64))>>)
\* The digest, from these two hash values.
HmacFinish(pads, bytes) ==
    With2(pads, bytes, LAMBDA p, data :
    With(Sha256Bytes(CompressAll(p[1], data \o Sha256Padding(64 + Len(data)))),
         LAMBDA inner : Sha256Bytes(CompressAll(p[2], inner \o Sha256Padding(96)))))
Hmac(key, bytes) == HmacFinish(HmacPads(key), bytes)

\* ---------------------------------------------- cryptography.fernet.Fernet
\* os.urandom(32) and os.urandom(16) as functions of the number drawn (a
\* different key and a different IV for every number), and int(time.time())
\* as eight big-endian bytes.
Digit(n, i) == (n \div (256 ^ i)) % 256
UrandomKey(s) ==
    SubSeq([j \in 1..32 |-> ((11 * j) + (77 * Digit(s, (j - 1) % 4))) % 256], 1, 32)
UrandomIV(r) ==
    SubSeq([j \in 1..16 |-> ((7 * j) + (53 * Digit(r, (j - 1) % 4))) % 256], 1, 16)
CurrentTime == 1700000000
ToBytes8(t) == [j \in 1..8 |-> IF j <= 4 THEN 0 ELSE (t \div (256 ^ (8 - j))) % 256]

\* PKCS7 padding to a multiple of 16 bytes, and its removal.
Pkcs7Pad(data) ==
    LET n == 16 - (Len(data) % 16) IN data \o [j \in 1..n |-> n]
Pkcs7Unpad(data) ==
    With(data, LAMBDA padded :
        LET len == Len(padded)
            n == IF len = 0 THEN 0 ELSE padded[len]
        IN  IF /\ len > 0 /\ n >= 1 /\ n <= 16
               /\ \A j \in (len - n + 1)..len : padded[j] = n
            THEN Ok(SubSeq(padded, 1, len - n)) ELSE Failed)

\* CBC encryption under the round keys rks.  out is the IV followed by the
\* ciphertext so far; blocks from..to of the padded input are appended, each
\* xored with the 16 bytes before it and encrypted.
RECURSIVE CbcEncryptBlocks(_, _, _, _, _)
CbcEncryptBlocks(rks, padded, out, from, to) ==
    IF from = to
    THEN With(out, LAMBDA c :
             c \o AesEncryptBlock(rks, XorBlock(SubSeq(padded, (16 * from) - 15, 16 * from),
                                                SubSeq(c, Len(c) - 15, Len(c)))))
    ELSE With(CbcEncryptBlocks(rks, padded, out, from, (from + to) \div 2),
              LAMBDA c : CbcEncryptBlocks(rks, padded, c, ((from + to) \div 2) + 1, to))
CbcEncrypt(round_keys, iv, padded_data) ==
    With2(round_keys, padded_data, LAMBDA rks, padded :
        IF padded = <<>> THEN <<>>
        ELSE With(CbcEncryptBlocks(rks, padded, iv, 1, Len(padded) \div 16),
                  LAMBDA c : SubSeq(c, 17, Len(c))))
\* CBC decryption: each block is decrypted and xored with the ciphertext
\* block before it, the first one with the IV.
CbcDecrypt(round_keys, iv, ciphertext) ==
    With2(round_keys, iv \o ciphertext, LAMBDA rks, c :
    With(SubSeq([i \in 1..((Len(c) \div 16) - 1) |->
                    XorBlock(AesDecryptBlock(rks, SubSeq(c, (16 * i) + 1, (16 * i) + 16)),
                             SubSeq(c, (16 * i) - 15, 16 * i))],
                1, (Len(c) \div 16) - 1),
         LAMBDA blocks :
        SubSeq([j \in 1..(Len(c) - 16) |-> blocks[((j - 1) \div 16) + 1][((j - 1) % 16) + 1]],
               1, Len(c) - 16)))

\* Fernet(key): the 32 decoded bytes (signing key, then encryption key);
\* Failed stands for ValueError.
FernetInit(key) ==
    With(B64Decode(key), LAMBDA d : IF d.ok /\ Len(d.v) = 32 THEN Ok(d.v) ELSE Failed)
\* Fernet.generate_key(): the base64 text of 32 random bytes.
FernetGenerateKey(s) == B64Encode(UrandomKey(s))

\* The part of a token the HMAC is computed over: version byte, timestamp, IV
\* and the AES-CBC ciphertext of the padded data.
BasicParts(encryption_key, now, iv, data) ==
    With2(iv, KeyExpansion(encryption_key), LAMBDA v, rks :
        <<128>> \o ToBytes8(now) \o v \o CbcEncrypt(rks, v, Pkcs7Pad(data)))

\* ------------------------------------------------- values computed once
\* A definition without parameters is evaluated once.  The tables below hold
\* HMAC values the model asks for again and again: for every key the model
\* draws (the key of k.key is draw 0), the two hash values HmacPads starts
\* from; for every such key, every IV and every text the model encrypts first,
\* the digest of the token's basic parts under every key; and the same for the
\* token of a file text encrypted once more under its key.
FernetKeys == {UrandomKey(s) : s \in 0..MaxSecret}
HmacPadTable == [k \in {SubSeq(key, 1, 16) : key \in FernetKeys} |-> HmacPads(k)]
FirstParts(texts) ==
    {<<key, BasicParts(SubSeq(key, 17, 32), CurrentTime, UrandomIV(r), StrEncode(t))>> :
        key \in FernetKeys, r \in 1..MaxIV, t \in texts}
HmacTable1 ==
    [a \in {<<SubSeq(key, 1, 16), p[2]>> :
               key \in FernetKeys, p \in FirstParts(FileTexts \cup CallerTexts)} |->
        HmacFinish(HmacPadTable[a[1]], a[2])]
HmacTable2 ==
    [a \in {<<SubSeq(p[1], 1, 16),
              BasicParts(SubSeq(p[1], 17, 32), CurrentTime, UrandomIV(r),
                         B64Encode(p[2] \o HmacTable1[<<SubSeq(p[1], 1, 16), p[2]>>]))>> :
               p \in FirstParts(FileTexts), r \in 1..MaxIV} |->
        HmacFinish(HmacPadTable[a[1]], a[2])]

\* Hmac(key, bytes), taken from the tables where they hold it.
FernetHmac(key, bytes) ==
    With(<<key, bytes>>, LAMBDA a :
        IF a \in DOMAIN HmacTable1 THEN HmacTable1[a]
        ELSE IF a \in DOMAIN HmacTable2 THEN HmacTable2[a]
        ELSE IF a[1] \in DOMAIN HmacPadTable THEN HmacFinish(HmacPadTable[a[1]], a[2])
        ELSE Hmac(a[1], a[2]))

\* Fernet.encrypt(data) at time now with the IV drawn as r: the basic parts
\* and their HMAC under the signing key, in base64.
FernetEncrypt(key, now, r, data) ==
    With2(SubSeq(key, 1, 16), BasicParts(SubSeq(key, 17, 32), now, UrandomIV(r), data),
          LAMBDA signing_key, basic_parts :
              B64Encode(basic_parts \o FernetHmac(signing_key, basic_parts)))

\* A variant of FernetDecrypt that does not verify the HMAC.
FernetDecryptNoMac(key, token) ==
    With2(SubSeq(key, 17, 32), B64Decode(token), LAMBDA encryption_key, d :
        LET n == Len(d.v)
        IN  IF ~d.ok \/ n < 9 THEN Failed
            ELSE IF d.v[1] # 128 THEN Failed
            ELSE IF n < 57 \/ (n - 57) % 16 # 0 THEN Failed
            ELSE Pkcs7Unpad(CbcDecrypt(KeyExpansion(encryption_key), SubSeq(d.v, 10, 25),
                                       SubSeq(d.v, 26, n - 32))))

\* Fernet.decrypt(token) without a ttl: the token is decoded, its version
\* byte and length checked, its HMAC verified, its ciphertext decrypted and
\* unpadded.  Failed stands for InvalidToken (or the ValueError of a token too
\* short to hold an IV).
FernetDecrypt(key, token) ==
    With2(SubSeq(key, 17, 32), B64Decode(token), LAMBDA encryption_key, d :
        LET n == Len(d.v)
        IN  IF ~d.ok \/ n < 9 THEN Failed
            ELSE IF d.v[1] # 128 THEN Failed
            ELSE IF \/ n < 32
                    \/ SubSeq(d.v, n - 31, n)
                          # FernetHmac(SubSeq(key, 1, 16), SubSeq(d.v, 1, n - 32))
            THEN Failed
            ELSE IF n < 57 \/ (n - 57) % 16 # 0 THEN Failed
            ELSE Pkcs7Unpad(CbcDecrypt(KeyExpansion(encryption_key), SubSeq(d.v, 10, 25),
                                       SubSeq(d.v, 26, n - 32))))

\* ------------------------------------------------------------ file system
\* A path names nothing ("missing"), a regular file or a directory; a file
\* may be write-protected.  Opening for reading needs a file, opening for
\* writing a missing path or an unprotected file.
Missing == [kind |-> "missing", ro |-> FALSE, data |-> <<>>]
Dir == [kind |-> "dir", ro |-> FALSE, data |-> <<>>]
File(data) == [kind |-> "file", ro |-> FALSE, data |-> data]

CanRead(fsys, p) == p \in DOMAIN fsys /\ fsys[p].kind = "file"
CanWrite(fsys, p) ==
    /\ p \in DOMAIN fsys
    /\ fsys[p].kind # "dir"
    /\ ~fsys[p].ro
WriteFile(fsys, p, data) == [fsys EXCEPT ![p] = File(data)]

\* ----------------------------------------------------------- FernetCypher
\* An object is its slots: _key (unset until a key is generated or loaded)
\* and _status.
Unset == [set |-> FALSE, v |-> <<>>]
KeySet(k) == [set |-> TRUE, v |-> k]

\* A variant of load_key that logs the error and returns.
load_key_returns(self, fsys, key_path) ==
    IF CanRead(fsys, key_path)
    THEN [self |-> [self EXCEPT !.key = KeySet(fsys[key_path].data)], exit |-> FALSE]
    ELSE [self |-> self, exit |-> FALSE]

\* load_key: the raw bytes of the file, or sys.exit(-1).
load_key(self, fsys, key_path) ==
    IF CanRead(fsys, key_path)
    THEN [self |-> [self EXCEPT !.key = KeySet(fsys[key_path].data)], exit |-> FALSE]
    ELSE [self |-> self, exit |-> TRUE]

\* __init__: loads the key when a path is given, then sets _status.
FernetCypher(fsys, key_path) ==
    IF key_path.none
    THEN [self |-> [key |-> Unset, status |-> TRUE], exit |-> FALSE]
    ELSE With(load_key([key |-> Unset, status |-> FALSE], fsys, key_path.v), LAMBDA l :
         IF l.exit THEN l
         ELSE [self |-> [l.self EXCEPT !.status = TRUE], exit |-> FALSE])

\* generate_key: the key is kept on the object before the file is opened.
generate_key(self, fsys, key_path, s) ==
    With(FernetGenerateKey(s), LAMBDA k :
        IF CanWrite(fsys, key_path)
        THEN [self |-> [self EXCEPT !.key = KeySet(k)],
              fs |-> WriteFile(fsys, key_path, k), ret |-> TRUE]
        ELSE [self |-> [self EXCEPT !.key = KeySet(k)], fs |-> fsys, ret |-> FALSE])

\* A variant of CipherFailed that forgets the status flag.
CipherFailedKeepsStatus(self) == [self |-> self, ret |-> None]

\* The except branch of both cipher methods: status cleared, None returned.
CipherFailed(self) == [self |-> [self EXCEPT !.status = FALSE], ret |-> None]

\* encrypt_message: Fernet(self._key).encrypt(message.encode()).decode().
encrypt_message(self, message, iv) ==
    IF ~self.key.set \/ message.none THEN CipherFailed(self)
    ELSE With(FernetInit(self.key.v), LAMBDA f :
         IF ~f.ok \/ ~CanEncode(message.v) THEN CipherFailed(self)
         ELSE With(BytesDecode(FernetEncrypt(f.v, CurrentTime, iv, StrEncode(message.v))),
                   LAMBDA text : IF text.ok THEN [self |-> self, ret |-> Some(text.v)]
                                 ELSE CipherFailed(self)))

\* decrypt_message: Fernet(self._key).decrypt(encrypted_message.encode()).decode().
decrypt_message(self, encrypted_message) ==
    IF ~self.key.set \/ encrypted_message.none THEN CipherFailed(self)
    ELSE With(FernetInit(self.key.v), LAMBDA f :
         IF ~f.ok \/ ~CanEncode(encrypted_message.v) THEN CipherFailed(self)
         ELSE With(FernetDecrypt(f.v, StrEncode(encrypted_message.v)), LAMBDA plain :
              IF ~plain.ok THEN CipherFailed(self)
              ELSE With(BytesDecode(plain.v),
                        LAMBDA text : IF text.ok THEN [self |-> self, ret |-> Some(text.v)]
                                      ELSE CipherFailed(self))))

\* The status property.
status(self) == self.status

\* ---------------------------------------------------------------- pathlib
\* Path(s) normalises s: components that are empty or "." are dropped, so are
\* a trailing slash and doubled slashes; exactly two leading slashes are
\* kept; what is left of a relative path with no component is ".".
Dot == <<".">>
Path(s) ==
    LET n == Len(s)
        isDot(i) == s[i] = "." /\ (i = 1 \/ s[i - 1] = "/") /\ (i = n \/ s[i + 1] = "/")
        root == IF n = 0 \/ s[1] # "/" THEN <<>>
                ELSE IF n >= 2 /\ s[2] = "/" /\ (n = 2 \/ s[3] # "/") THEN <<"/", "/">>
                ELSE <<"/">>
    IN  With(SelectSeq([i \in 1..n |-> IF isDot(i) THEN "" ELSE s[i]], LAMBDA c : c # ""),
             LAMBDA s1 :
        LET m == Len(s1)
            sep(i) == /\ s1[i] = "/" /\ i < m /\ s1[i + 1] # "/"
                      /\ \E j \in 1..(i - 1) : s1[j] # "/"
        IN  With(SelectSeq([i \in 1..m |-> IF s1[i] # "/" \/ sep(i) THEN s1[i] ELSE ""],
                           LAMBDA c : c # ""),
                 LAMBDA body : IF root = <<>> /\ body = <<>> THEN Dot ELSE root \o body))

\* The index of the last occurrence of ch in s, 0 when there is none.
RFind(s, ch) ==
    LET hits == {j \in 1..Len(s) : s[j] = ch}
    IN  IF hits = {} THEN 0 ELSE CHOOSE j \in hits : \A h \in hits : h <= j

\* PurePath.name: the final component, empty for the current directory.
PathName(p) ==
    IF p = Dot THEN <<>> ELSE SubSeq(p, RFind(p, "/") + 1, Len(p))

\* PurePath.suffix and PurePath.stem: the name is split at its last dot,
\* unless that dot leads or ends the name.
HasSuffix(n) == RFind(n, ".") > 1 /\ RFind(n, ".") < Len(n)
PathSuffix(p) ==
    With(PathName(p), LAMBDA n :
        IF HasSuffix(n) THEN SubSeq(n, RFind(n, "."), Len(n)) ELSE <<>>)
PathStem(p) ==
    With(PathName(p), LAMBDA n :
        IF HasSuffix(n) THEN SubSeq(n, 1, RFind(n, ".") - 1) ELSE n)

\* ROOT_PATH / name: a file of the working directory.
ROOT_PATH(name) == Path(name)
DEFAULT_KEY_NAME == <<"d", "e", "f", "a", "u", "l", "t", ".", "k", "e", "y">>

\* -------------------------------------------------------- file helpers
\* A variant of load_message that returns an empty text on failure.
load_message_empty(fsys, message_path) ==
    IF ~CanRead(fsys, message_path) THEN Some(<<>>)
    ELSE With(BytesDecode(fsys[message_path].data), LAMBDA text :
         IF text.ok THEN Some(UniversalNewlines(text.v)) ELSE Some(<<>>))

\* load_message: the text of the file as text mode reads it (UTF-8 decoded,
\* line ends translated), or None after logging.
load_message(fsys, message_path) ==
    IF ~CanRead(fsys, message_path) THEN None
    ELSE With(BytesDecode(fsys[message_path].data), LAMBDA text :
         IF text.ok THEN Some(UniversalNewlines(text.v)) ELSE None)

\* write_message: open(.., 'w') empties or creates the file, write() fills it
\* with the encoded text.  A failure to open leaves the file system as it is,
\* a failure to write (message is None or cannot be encoded) leaves the file
\* empty; both are logged.
write_message(fsys, message, message_path) ==
    IF ~CanWrite(fsys, message_path) THEN [fs |-> fsys, ok |-> FALSE]
    ELSE IF message.none \/ ~CanEncode(message.v)
    THEN [fs |-> WriteFile(fsys, message_path, <<>>), ok |-> FALSE]
    ELSE [fs |-> WriteFile(fsys, message_path, StrEncode(message.v)), ok |-> TRUE]

\* ------------------------------------------------------------- the model
MaxOps == 2
MaxEdits == 1

\* The files of the model.
KKey == <<"k", ".", "k", "e", "y">>
NoteTxt == <<"n", "o", "t", "e", ".", "t", "x", "t">>
NoteCTxt == <<"n", "o", "t", "e", "_", "C", ".", "t", "x", "t">>
\* note.txt as the user may type it.
DotNoteTxt == <<".", "/">> \o NoteTxt

\* What the user types or browses into the three input fields.
KeyChoices == {<<>>, KKey, NoteCTxt}
MessageChoices == {DotNoteTxt, NoteCTxt}
NameChoices == {KKey}

\* A variant of DerivedName that puts the tag after the suffix.
DerivedNameAppended(p, tag) == PathStem(p) \o PathSuffix(p) \o tag

\* The output name of a cipher action: stem + tag + suffix.
DerivedName(p, tag) == PathStem(p) \o tag \o PathSuffix(p)
TagC == <<"_", "C">>
TagD == <<"_", "D">>

FsPaths ==
    {Dot, DEFAULT_KEY_NAME} \cup {Path(s) : s \in KeyChoices \cup MessageChoices \cup NameChoices}
    \cup {ROOT_PATH(DerivedName(Path(s), tag)) : s \in MessageChoices, tag \in {TagC, TagD}}

VARIABLES
    pc,                 \* "run", or how the process ended
    fs,                 \* the file system
    vKey, vMsg, vName,  \* values['-KEY_FILE-'], ['-MESSAGE_FILE-'], ['-KEY_NAME-']
    key_file_path, message_file_path, message, f_cypher,  \* the loop's variables
    last,               \* what the last step did (history)
    ops, edits,         \* clicks and outside edits so far (bounded)
    cy, ret, orig, call \* a FernetCypher object used directly

guiVars == <<pc, fs, vKey, vMsg, vName, key_file_path, message_file_path,
             message, f_cypher, last, ops, edits>>
cyVars == <<cy, ret, orig, call>>
vars == <<guiVars, cyVars>>

\* A variable of the loop is unbound, None or bound to a value.
VarUndef == [st |-> "undef", v |-> <<>>]
VarNone == [st |-> "none", v |-> <<>>]
VarVal(x) == [st |-> "val", v |-> x]
\* The value a bound-or-None variable passes to a call.
Arg(var) == IF var.st = "val" THEN Some(var.v) ELSE None
\* The variable after it is assigned a value that may be None.
Assigned(x) == IF x.none THEN VarNone ELSE VarVal(x.v)

Idle(ev) ==
    [ev |-> ev, guard |-> FALSE, called |-> FALSE, ok |-> FALSE,
     src |-> VarUndef, input |-> None, fresh |-> None, out |-> None,
     target |-> None,
     written |-> FALSE, read |-> FALSE, logged |-> FALSE]

InitFs ==
    [p \in FsPaths |->
        IF p = Dot THEN Dir
        ELSE IF p = NoteTxt THEN File(StrEncode(NoteText))
        ELSE IF p = KKey THEN File(FernetGenerateKey(0))
        ELSE Missing]

InitCy ==
    /\ cy = [key |-> Unset, status |-> TRUE]
    /\ ret = None
    /\ orig = [made |-> FALSE, k |-> <<>>, p |-> <<>>, c |-> <<>>]
    /\ call = [op |-> "init", arg |-> None, before |-> TRUE, edit |-> "none",
               same |-> TRUE]

InitGui ==
    /\ pc = "run"
    /\ fs = InitFs
    /\ vKey = <<>>
    /\ vMsg = <<>>
    /\ vName = DEFAULT_KEY_NAME
    /\ key_file_path = VarUndef
    /\ message_file_path = VarUndef
    /\ message = VarUndef
    /\ f_cypher = "undef"
    /\ last = Idle("init")
    /\ ops = 0
    /\ edits = 0

Init == InitGui /\ InitCy

\* ------------------------------------------------------- the event loop
\* One action per event of window.read(); each runs its handler to the end.
loopVars == <<key_file_path, message_file_path, message, f_cypher>>
fieldVars == <<vKey, vMsg, vName>>

\* The window is closed: sys.exit(0).
EvWindowClosed ==
    /\ pc = "run"
    /\ pc' = "exit0"
    /\ last' = Idle("close")
    /\ UNCHANGED <<fs, fieldVars, loopVars, ops, edits, cyVars>>

\* The Exit button: the loop is left and the window closed.
EvExitButton ==
    /\ pc = "run"
    /\ pc' = "closed"
    /\ last' = Idle("exit")
    /\ UNCHANGED <<fs, fieldVars, loopVars, ops, edits, cyVars>>

\* The key-file field changes (typed or browsed) to s.
EvKeyFile(s) ==
    /\ pc = "run"
    /\ vKey' = s
    /\ key_file_path' = VarVal(Path(s))
    /\ last' = Idle("field")
    /\ UNCHANGED <<pc, fs, vMsg, vName, message_file_path, message, f_cypher,
                   ops, edits, cyVars>>

\* A variant of EvMessageFile that loads the message whether or not a key
\* file is selected.
EvMessageFileUnguarded(s) ==
    /\ pc = "run"
    /\ \E m \in {load_message(fs, Path(s))} :
          /\ vMsg' = s
          /\ message_file_path' = VarVal(Path(s))
          /\ message' = Assigned(m)
          /\ last' = [Idle("msg") EXCEPT !.read = TRUE, !.logged = m.none]
    /\ UNCHANGED <<pc, fs, vKey, vName, key_file_path, f_cypher, ops, edits, cyVars>>

\* The message-file field changes to s: the message is loaded when a key file
\* is selected, and the field is emptied when none is.
EvMessageFile(s) ==
    /\ pc = "run"
    /\ IF vKey # <<>>
       THEN \E m \in {load_message(fs, Path(s))} :
               /\ vMsg' = s
               /\ message_file_path' = VarVal(Path(s))
               /\ message' = Assigned(m)
               /\ last' = [Idle("msg") EXCEPT !.read = TRUE, !.logged = m.none]
       ELSE /\ vMsg' = <<>>
            /\ UNCHANGED <<message_file_path, message>>
            /\ last' = Idle("msg")
    /\ UNCHANGED <<pc, fs, vKey, vName, key_file_path, f_cypher, ops, edits, cyVars>>

\* The key-name field changes to s; no handler acts on it.
EvKeyName(s) ==
    /\ pc = "run"
    /\ vName' = s
    /\ last' = Idle("field")
    /\ UNCHANGED <<pc, fs, vKey, vMsg, loopVars, ops, edits, cyVars>>

\* A variant of ResetTransient that leaves the key selection in place.
ResetTransientKeepsKey ==
    /\ vMsg' = <<>>
    /\ vName' = <<>>
    /\ message_file_path' = VarNone
    /\ f_cypher' = "none"
    /\ UNCHANGED <<vKey, key_file_path>>

\* The end of the three button handlers: fields and variables are cleared.
ResetTransient ==
    /\ vKey' = <<>>
    /\ vMsg' = <<>>
    /\ vName' = <<>>
    /\ key_file_path' = VarNone
    /\ message_file_path' = VarNone
    /\ f_cypher' = "none"

\* The exit status of the process: sys.exit(-1) is seen as 255.
ExitCode(p) == IF p \in {"exit_key", "exit_exc"} THEN 255 ELSE 0

\* The process ends inside a handler: by sys.exit(-1) in load_key ("exit_key")
\* or by the loop's exception handler ("exit_exc").
Fatal(how, f, l) ==
    /\ pc' = how
    /\ f_cypher' = f
    /\ last' = [l EXCEPT !.logged = TRUE]
    /\ UNCHANGED <<fs, fieldVars, key_file_path, message_file_path, ops>>

\* The Encrypt Message and Decrypt Message buttons (op "enc" with tag _C, op
\* "dec" with tag _D).
CipherClick(op, tag, iv) ==
    /\ pc = "run"
    /\ UNCHANGED <<message, edits, cyVars>>
    /\ IF vKey = <<>> \/ vMsg = <<>>
       THEN /\ last' = Idle(op)
            /\ UNCHANGED <<pc, fs, fieldVars, key_file_path, message_file_path,
                           f_cypher, ops>>
       ELSE
       /\ ops < MaxOps
       /\ \E fresh \in {load_message(fs, Path(vMsg))},
             c \in {FernetCypher(fs, Arg(key_file_path))} :
          LET l0 == [Idle(op) EXCEPT !.guard = TRUE, !.src = message_file_path,
                                     !.fresh = fresh]
          IN  IF key_file_path.st = "undef" THEN Fatal("exit_exc", f_cypher, l0)
              ELSE IF c.exit THEN Fatal("exit_key", f_cypher, l0)
              ELSE IF message.st = "undef" THEN Fatal("exit_exc", "obj", l0)
              ELSE
              \E r \in {IF op = "enc" THEN encrypt_message(c.self, Arg(message), iv)
                         ELSE decrypt_message(c.self, Arg(message))} :
                 LET l1 == [l0 EXCEPT !.called = TRUE, !.input = Arg(message),
                                      !.ok = status(r.self), !.out = r.ret]
                 IN  IF status(r.self) /\ message_file_path.st # "val"
                     THEN Fatal("exit_exc", "obj", l1)
                     ELSE /\ pc' = pc
                          /\ ops' = ops + 1
                          /\ ResetTransient
                          /\ IF status(r.self)
                             THEN \E message_path \in
                                        {ROOT_PATH(DerivedName(message_file_path.v, tag))} :
                                  \E w \in {write_message(fs, r.ret, message_path)} :
                                     /\ fs' = w.fs
                                     /\ last' = [l1 EXCEPT !.target = Some(message_path),
                                                           !.written = w.ok,
                                                           !.logged = ~w.ok]
                             ELSE /\ fs' = fs
                                  /\ last' = [l1 EXCEPT !.logged = TRUE]

EvEncryptMessage ==
    /\ pc = "run"
    /\ \E iv \in 1..MaxIV : CipherClick("enc", TagC, iv)

EvDecryptMessage ==
    /\ pc = "run"
    /\ CipherClick("dec", TagD, 1)

\* The Generate button: a fresh key is written to the named file.
EvGenerateKey(s) ==
    /\ pc = "run"
    /\ ops < MaxOps
    /\ \E g \in {generate_key(FernetCypher(fs, None).self, fs, ROOT_PATH(vName), s)} :
          /\ fs' = g.fs
          /\ last' = [Idle("gen") EXCEPT !.target = Some(ROOT_PATH(vName)),
                                        !.written = g.ret, !.logged = ~g.ret]
    /\ ResetTransient
    /\ ops' = ops + 1
    /\ UNCHANGED <<pc, message, edits, cyVars>>

\* ------------------------------------------------------ the environment
\* Another program saves data into the message file, or write-protects the
\* output file of an earlier encryption.
UserSave(p, data) ==
    /\ pc = "run"
    /\ edits < MaxEdits
    /\ CanWrite(fs, p)
    /\ fs' = WriteFile(fs, p, data)
    /\ edits' = edits + 1
    /\ last' = Idle("env")
    /\ UNCHANGED <<pc, fieldVars, loopVars, ops, cyVars>>

UserProtect(p) ==
    /\ pc = "run"
    /\ edits < MaxEdits
    /\ fs[p].kind = "file" /\ ~fs[p].ro
    /\ fs' = [fs EXCEPT ![p].ro = TRUE]
    /\ edits' = edits + 1
    /\ last' = Idle("env")
    /\ UNCHANGED <<pc, fieldVars, loopVars, ops, cyVars>>

Next ==
    \/ EvWindowClosed
    \/ EvExitButton
    \/ \E s \in KeyChoices : EvKeyFile(s)
    \/ \E s \in MessageChoices : EvMessageFile(s)
    \/ \E s \in NameChoices : EvKeyName(s)
    \/ EvEncryptMessage
    \/ EvDecryptMessage
    \/ \E s \in 1..MaxSecret : EvGenerateKey(s)
    \/ \E d \in UserData : UserSave(NoteTxt, d)
    \/ UserProtect(NoteCTxt)

Spec == Init /\ [][Next]_vars

\* ------------------------------------------- the class, used on its own
\* A caller holds one FernetCypher object at a time (cy) and the value its
\* last cipher call returned (ret).  orig remembers the last successful
\* encryption: the key bytes, the plaintext and the ciphertext text.  call is
\* the last call: its argument and the status before it; when the argument
\* was an altered copy of the ciphertext, edit says how it was altered and
\* same whether it still decodes to the token bytes of the ciphertext.
CyKeyPaths == {KKey, NoteTxt, NoteCTxt}
\* Characters an edit puts into a ciphertext: it overwrites with A or + (and
\* flips the lowest bit) and inserts a newline, = or A.
ReplaceChars == {Chr(65), Chr(43)}
InsertChars == {Chr(10), Chr(61), Chr(65)}

Called(op, arg) ==
    [op |-> op, arg |-> arg, before |-> status(cy), edit |-> "none", same |-> TRUE]

\* Two ciphertext texts carry the same token bytes.
SameToken(a, b) ==
    With(B64Decode(StrEncode(a)), LAMBDA d : d.ok /\ d = B64Decode(StrEncode(b)))

\* FernetCypher()
CyNew ==
    /\ pc = "run"
    /\ cy' = FernetCypher(fs, None).self
    /\ call' = Called("new", None)
    /\ UNCHANGED <<guiVars, ret, orig>>

\* FernetCypher(key_path)
CyOpen(p) ==
    /\ pc = "run"
    /\ \E c \in {FernetCypher(fs, Some(p))} :
          IF c.exit
          THEN /\ pc' = "exit_key"
               /\ UNCHANGED cy
          ELSE /\ pc' = pc
               /\ cy' = c.self
    /\ call' = Called("open", None)
    /\ UNCHANGED <<fs, fieldVars, loopVars, last, ops, edits, ret, orig>>

\* cy.load_key(key_path)
CyLoadKey(p) ==
    /\ pc = "run"
    /\ \E l \in {load_key(cy, fs, p)} :
          IF l.exit
          THEN /\ pc' = "exit_key"
               /\ UNCHANGED cy
          ELSE /\ pc' = pc
               /\ cy' = l.self
    /\ call' = Called("load", None)
    /\ UNCHANGED <<fs, fieldVars, loopVars, last, ops, edits, ret, orig>>

\* cy.generate_key(key_path)
CyGenerateKey(p, s) ==
    /\ pc = "run"
    /\ \E g \in {generate_key(cy, fs, p, s)} :
          /\ cy' = g.self
          /\ fs' = g.fs
    /\ call' = Called("gen", None)
    /\ UNCHANGED <<pc, fieldVars, loopVars, last, ops, edits, ret, orig>>

\* cy.encrypt_message(m)
CyEncrypt(m, iv) ==
    /\ pc = "run"
    /\ \E r \in {encrypt_message(cy, m, iv)} :
          /\ cy' = r.self
          /\ ret' = r.ret
          /\ IF r.ret.none
             THEN UNCHANGED orig
             ELSE orig' = [made |-> TRUE, k |-> FernetInit(cy.key.v).v,
                           p |-> m.v, c |-> r.ret.v]
    /\ call' = Called("enc", m)
    /\ UNCHANGED guiVars

\* cy.decrypt_message(m)
CyDecrypt(m) ==
    /\ pc = "run"
    /\ \E r \in {decrypt_message(cy, m)} :
          /\ cy' = r.self
          /\ ret' = r.ret
    /\ call' = Called("dec", m)
    /\ UNCHANGED <<guiVars, orig>>

\* cy.decrypt_message of the ciphertext the last encryption returned.
CyDecryptOwn ==
    /\ orig.made
    /\ CyDecrypt(Some(orig.c))

\* The places of a ciphertext an edit touches: its first character (the
\* version byte), characters of the timestamp, the IV, the AES ciphertext and
\* the HMAC, and its last three characters (the last data character and the
\* padding of a token that ends in "==").
EditPlaces(t) ==
    {j \in {1, 5, 20, 45, 70, Len(t) - 2, Len(t) - 1, Len(t)} : j >= 1 /\ j <= Len(t)}
\* The ciphertext cut short (before one of these places, or to its last whole
\* group of four characters), with one character replaced (by a character of
\* ReplaceChars, or by the character whose 6-bit value differs in its lowest
\* bit), or with a character inserted (at the front, inside the first group, or
\* after one of these places).
Truncations(t) ==
    {SubSeq(t, 1, n) : n \in {j - 1 : j \in EditPlaces(t)} \cup {4 * ((Len(t) - 1) \div 4)}}
LowBitFlipped(c) ==
    IF B64Value(c.cp) = 64 THEN c
    ELSE IF B64Value(c.cp) % 2 = 0 THEN Chr(B64Char(B64Value(c.cp) + 1))
    ELSE Chr(B64Char(B64Value(c.cp) - 1))
Replacements(t) ==
    UNION {{[t EXCEPT ![j] = c] : c \in ReplaceChars \cup {LowBitFlipped(t[j])}} :
              j \in EditPlaces(t)} \ {t}
Insertions(t) ==
    {SubSeq(t, 1, j) \o <<c>> \o SubSeq(t, j + 1, Len(t)) :
        j \in {0, 3} \cup EditPlaces(t), c \in InsertChars}
Alterations(edit, t) ==
    IF edit = "cut" THEN Truncations(t)
    ELSE IF edit = "replace" THEN Replacements(t)
    ELSE Insertions(t)

\* The ciphertext encrypt_message has just returned comes back altered:
\* cy.decrypt_message of the altered text.
CyDecryptAltered ==
    /\ pc = "run"
    /\ call.op = "enc" /\ ~ret.none
    /\ \E edit \in {"cut", "replace", "insert"} :
       \E t \in Alterations(edit, ret.v) :
       \E r \in {decrypt_message(cy, Some(t))} :
          /\ cy' = r.self
          /\ ret' = r.ret
          /\ call' = [op |-> "dec", arg |-> None, before |-> status(cy),
                      edit |-> edit, same |-> SameToken(t, ret.v)]
    /\ UNCHANGED <<guiVars, orig>>

NextCypher ==
    \/ CyNew
    \/ \E p \in CyKeyPaths : CyOpen(p)
    \/ \E p \in CyKeyPaths : CyLoadKey(p)
    \/ \E s \in 1..MaxSecret : CyGenerateKey(KKey, s)
    \/ \E m \in Messages, iv \in 1..MaxIV : CyEncrypt(m, iv)
    \/ CyDecryptOwn
    \/ CyDecrypt(Some(<<Chr(97)>>))
    \/ CyDecryptAltered

SpecCypher == Init /\ [][NextCypher]_vars

\* ----------------------------------------------------- claims on the class
\* The object holds a valid key whose 32 bytes are k.
KeyIs(k) == cy.key.set /\ FernetInit(cy.key.v) = Ok(k)
\* The last call was decrypt_message of a text: the ciphertext as returned,
\* an altered copy of it, or another text.
DecryptedText == call.op = "dec" /\ (call.edit # "none" \/ ~call.arg.none)
\* That text differs from the ciphertext; it decodes to the same token bytes.
TextAltered == call.edit # "none" \/ call.arg.v # orig.c
TextSameToken ==
    IF call.edit # "none" THEN call.same ELSE SameToken(call.arg.v, orig.c)
\* Whether a call on a new object holding the key succeeds.
Succeeds(key, op, arg) ==
    LET new == [key |-> key, status |-> TRUE]
    IN  IF op = "enc" THEN status(encrypt_message(new, arg, 1).self)
        ELSE status(decrypt_message(new, arg).self)

\* C1: round trip.  encrypt_message of a plaintext under a valid key returns a
\* ciphertext and leaves the status as it was; decrypt_message of that
\* ciphertext, on an object holding the same key, returns exactly the
\* plaintext and leaves the status as it was.
C1_RoundTrip ==
    /\ (call.op = "enc" /\ ~call.arg.none /\ CanEncode(call.arg.v)
           /\ cy.key.set /\ FernetInit(cy.key.v).ok)
          => /\ ~ret.none
             /\ orig.made /\ orig.p = call.arg.v /\ orig.c = ret.v
             /\ status(cy) = call.before
    /\ (call.op = "dec" /\ call.edit = "none" /\ orig.made
           /\ call.arg = Some(orig.c) /\ KeyIs(orig.k))
          => /\ ret = Some(orig.p)
             /\ status(cy) = call.before

\* A text with two- and three-byte characters has gone through the round trip.
C1_Witness ==
    /\ call.op = "dec" /\ call.edit = "none" /\ orig.made
    /\ call.arg = Some(orig.c) /\ KeyIs(orig.k)
    /\ orig.p = <<Chr(233), Chr(8364), Chr(10)>>
    /\ ret = Some(orig.p)
    /\ status(cy)

\* C2 as stated: decrypt_message fails (None returned, status False) on every
\* ciphertext made with another key and on every ciphertext whose text was
\* altered or truncated.
C2_AnyAlterationFails ==
    (DecryptedText /\ orig.made /\ (~KeyIs(orig.k) \/ TextAltered))
       => (ret.none /\ ~status(cy))

\* C2 as amended: decrypt_message fails (None returned, status False) when the
\* object does not hold the key the ciphertext was made with or when the text
\* no longer decodes to the token bytes encrypt_message produced; it never
\* returns a plaintext other than the one encrypted, and a text altered in a
\* way the base64 decoder does not see still decrypts to it and leaves the
\* status as it was.
C2_TamperDetected ==
    (DecryptedText /\ orig.made)
       => /\ (~KeyIs(orig.k) \/ ~TextSameToken) => (ret.none /\ ~status(cy))
          /\ (KeyIs(orig.k) /\ TextSameToken)
                => (ret = Some(orig.p) /\ status(cy) = call.before)

\* An altered ciphertext has been refused by an object whose status was True
\* and which holds the right key.
C2_Witness ==
    /\ call.op = "dec" /\ call.edit = "replace" /\ orig.made
    /\ KeyIs(orig.k) /\ ~call.same
    /\ call.before
    /\ ret.none /\ ~status(cy)

\* C9 as stated: after encrypt_message or decrypt_message the status of the
\* object is what the call alone decides from the key and its input,
\* whatever was called on the object before.
C9_StatusOfCallOnly ==
    (call.op \in {"enc", "dec"} /\ call.edit = "none")
       => (status(cy) <=> Succeeds(cy.key, call.op, call.arg))

\* ------------------------------------------------ claims on the event loop
NoteCDTxt == <<"n", "o", "t", "e", "_", "C", "_", "D", ".", "t", "x", "t">>

\* The step is an Encrypt or Decrypt click whose guard passed.
GuardedClick ==
    /\ pc = "run"
    /\ last'.ev \in {"enc", "dec"} /\ last'.guard
    /\ (ops' # ops \/ pc' # pc)

\* C3: a click whose guard passed while the selected key file cannot be read
\* ends the process in load_key with a nonzero exit status after an error is
\* logged: no cipher call is made, nothing is written and the loop's exception
\* handler is not the one that ends it.
C3_MissingKeyIsFatal ==
    [][(GuardedClick /\ ~CanRead(fs, Path(vKey)))
         => /\ pc' = "exit_key" /\ ExitCode(pc') # 0
            /\ last'.logged
            /\ ~last'.called /\ last'.target.none
            /\ fs' = fs]_vars

\* An Encrypt click has ended the process because the key file is missing.
C3_Witness ==
    /\ pc = "exit_key"
    /\ last.ev = "enc" /\ last.guard /\ ~last.called
    /\ key_file_path.st = "val" /\ fs[key_file_path.v].kind = "missing"

\* C4: selecting a message file that cannot be read leaves message None, logs
\* an error, changes no file and leaves the loop running.
C4_MissingMessageIsLogged ==
    [][(pc = "run" /\ last'.ev = "msg" /\ last'.read
           /\ ~CanRead(fs, message_file_path'.v))
         => /\ message' = VarNone
            /\ last'.logged
            /\ pc' = "run"
            /\ fs' = fs]_vars

\* A missing message file has been selected and the loop is running.
C4_Witness ==
    /\ pc = "run"
    /\ last.ev = "msg" /\ last.read /\ last.logged
    /\ message = VarNone
    /\ message_file_path.st = "val" /\ fs[message_file_path.v].kind = "missing"

\* The name the claim derives from name.ext: the tag goes before the last dot.
TagBeforeLastDot(p, tag) ==
    SubSeq(p, 1, RFind(p, ".") - 1) \o tag \o SubSeq(p, RFind(p, "."), Len(p))

\* C5: a successful Encrypt of name.ext writes to name_C.ext and a successful
\* Decrypt to name_D.ext, already-suffixed names included (note.txt gives
\* note_C.txt, note_C.txt gives note_C_D.txt), and the file written holds the
\* text the cipher call returned.
C5_DerivedFileName ==
    (last.ev \in {"enc", "dec"} /\ last.ok /\ pc = "run")
       => LET tag == IF last.ev = "enc" THEN TagC ELSE TagD
          IN  /\ last.src.st = "val"
              /\ last.target = Some(TagBeforeLastDot(last.src.v, tag))
              /\ (last.ev = "enc" /\ last.src.v = NoteTxt) => last.target.v = NoteCTxt
              /\ (last.ev = "dec" /\ last.src.v = NoteCTxt) => last.target.v = NoteCDTxt
              /\ last.written
                    => /\ fs[last.target.v].kind = "file"
                       /\ fs[last.target.v].data = StrEncode(last.out.v)

\* note.txt was encrypted into note_C.txt, and a Decrypt of note_C.txt has
\* written the original text to note_C_D.txt.
C5_Witness ==
    /\ last.ev = "dec" /\ last.ok /\ last.written
    /\ last.src = VarVal(NoteCTxt)
    /\ last.target = Some(NoteCDTxt)
    /\ fs[NoteCDTxt].data = fs[NoteTxt].data

\* C6 as stated: the action writes its output file exactly when the cipher
\* call succeeded.
C6_WrittenIffSucceeded ==
    (last.ev \in {"enc", "dec"} /\ last.called) => (last.written <=> last.ok)

\* C6 as amended: a failure inside the cipher call sets the status flag and
\* leaves the loop running with no file changed; write_message is called on
\* the derived output file exactly when the cipher call succeeded, and the
\* file is then written unless it cannot be opened for writing, which is
\* logged and changes no file.
C6_FailureIsFlagged ==
    [][(GuardedClick /\ last'.called)
         => /\ pc' = "run"
            /\ last'.ok <=> ~last'.out.none
            /\ ~last'.ok
                  => (last'.logged /\ last'.target.none /\ ~last'.written /\ fs' = fs)
            /\ last'.ok
                  => /\ ~last'.target.none
                     /\ last'.written <=> CanWrite(fs, last'.target.v)
                     /\ last'.written
                           => fs' = WriteFile(fs, last'.target.v, StrEncode(last'.out.v))
                     /\ ~last'.written => (last'.logged /\ fs' = fs)]_vars

\* An Encrypt click has failed for want of message content and the loop runs.
C6_Witness ==
    /\ pc = "run"
    /\ last.ev = "enc" /\ last.called /\ ~last.ok
    /\ last.input.none /\ last.out.none /\ last.target.none

\* C7 as stated: the message a click transforms is the content the selected
\* message file has when the click happens.
C7_ReadAtClick ==
    (last.ev \in {"enc", "dec"} /\ last.called) => last.input = last.fresh

\* The fields and variables are as the reset leaves them.
Cleared ==
    /\ vKey = <<>> /\ vMsg = <<>>
    /\ key_file_path = VarNone /\ message_file_path = VarNone
    /\ f_cypher = "none"

\* C8: after every Generate and every Encrypt or Decrypt whose cipher call was
\* made, the selections, the path variables and the cipher object are cleared;
\* a click that follows while they are cleared makes no cipher call and
\* changes no file, and every cipher call starts from a state in which both a
\* key file and a message file are selected.
C8_ResetAfterAction ==
    [][/\ (pc' = "run" /\ (last'.ev = "gen" \/ (last'.ev \in {"enc", "dec"} /\ last'.called)))
          => Cleared'
       /\ (Cleared /\ last'.ev \in {"enc", "dec"})
          => (~last'.guard /\ ~last'.called /\ fs' = fs /\ pc' = pc)
       /\ (last'.ev \in {"enc", "dec"} /\ last'.called /\ ops' # ops)
          => (vKey # <<>> /\ vMsg # <<>>)]_vars

\* An Encrypt click right after a completed action has done nothing.
C8_Witness ==
    /\ ops > 0
    /\ last.ev = "enc" /\ ~last.guard /\ ~last.called
    /\ Cleared

\* C10: a message selection made while no key file is selected is refused
\* (field emptied, no file read, variables untouched); whenever both fields
\* are filled the path variables hold the displayed selections and the message
\* has been loaded; a file is read only while a key file is selected, a cipher
\* call is made only while both are, and an output file is named only after a
\* successful cipher call; the loop's exception handler never ends the process.
C10_EventOrder ==
    [][/\ (pc = "run" /\ last'.ev = "msg" /\ vKey = <<>>)
          => /\ vMsg' = <<>>
             /\ ~last'.read
             /\ message' = message /\ message_file_path' = message_file_path
       /\ (vKey' # <<>>) => key_file_path' = VarVal(Path(vKey'))
       /\ (vMsg' # <<>>)
          => /\ message_file_path' = VarVal(Path(vMsg'))
             /\ message'.st # "undef"
       /\ last'.read => vKey # <<>>
       /\ (last'.called /\ ops' # ops) => (vKey # <<>> /\ vMsg # <<>>)
       /\ (last'.ev \in {"enc", "dec"} /\ ~last'.target.none)
          => (last'.called /\ last'.ok)
       /\ pc' # "exit_exc"]_vars

\* Both files have been selected again after an earlier action cleared them.
C10_Witness ==
    /\ pc = "run" /\ ops > 0
    /\ vKey = KKey /\ vMsg = DotNoteTxt
    /\ key_file_path = VarVal(KKey)
    /\ message_file_path = VarVal(NoteTxt)
    /\ message.st = "val"

====
